---- MODULE Spec2Model ----
(***************************************************************************)
(* Model of bundle_adjust/ba_utils.py:                                     *)
(*   get_predefined_pairs      (pair ordering loader)                      *)
(*   build_connectivity_graph  (camera connectivity graph)                 *)
(*   run_plyflatten            (raster grid from a UTM bounding box)       *)
(*   read_point_cloud_ply, write_point_cloud_ply (point cloud files)       *)
(*   save_geotiff, compute_sift_order, close_small_holes_from_dsm          *)
(* Text is modelled as sequences of characters, so that readline, split,   *)
(* isdigit, int and basename are computed and not assumed.                 *)
(***************************************************************************)
EXTENDS Integers, Sequences, FiniteSets, TLC

VARIABLES
    gp_pc,          \* get_predefined_pairs: "idle","start","loop","done","raised"
    gp_order,       \* argument order
    gp_site,        \* argument site
    gp_file,        \* the lines of the file fname, each ending as readline returns it
    gp_pos,         \* number of lines already consumed by f.readline()
    gp_i,           \* loop variable i of "for i in range(50)"
    gp_pairs,       \* local list pairs
    gp_open,        \* TRUE while the handle f of the with block is open
    gp_err,         \* the exception that left the function ("none" if none)
    cg_pc,          \* build_connectivity_graph: position in the function
    cg_C,           \* argument C: [row -> [track -> "nan" | "val"]]
    cg_ncam,        \* number of row pairs of C (C.shape[0] / 2, exact)
    cg_min,         \* argument min_matches
    cg_A,           \* local A
    cg_tmp_pairs,   \* local tmp_pairs
    cg_counts,      \* local n_correspondences_filt
    cg_pairs,       \* local pairs_to_draw
    cg_matches,     \* local matches_per_pair
    cg_Gnodes,      \* nodes of G, in insertion order
    cg_Gedges,      \* edges of G
    cg_cc,          \* local G_cc, the node sets of the components, in order
    cg_ncc,         \* local n_cc
    cg_missing,     \* local missing_cams (as a set)
    cg_err,         \* the exception that left the function ("none" if none)
    pf_pc,          \* run_plyflatten: position in the function
    pf_bbx,         \* argument utm_bbx, in units of 1/Scale
    pf_res,         \* argument resolution, in units of 1/Scale
    pf_std,         \* argument std
    pf_cnt,         \* argument cnt
    pf_aoi,         \* TRUE iff argument aoi_lonlat is not None
    pf_mask,        \* local mask: "ones" or "aoi" ("none" before it is computed)
    pf_shape,       \* raster.shape[2] as the backend returned it
    pf_roi,         \* local roi = (xoff, yoff, xsize, ysize)
    pf_layers,      \* raster.shape[2] of the local raster
    pf_calls,       \* number of calls of plyflatten_from_plyfiles_list
    pf_written,     \* output files written: set of [file, layer]
    pf_dirs,        \* directories created by os.makedirs
    pf_err,         \* the exception that left the function ("none" if none)
    rp_pc,          \* read_point_cloud_ply: position in the function
    rp_file,        \* the lines of the file filename
    rp_content,     \* local content
    rp_npts,        \* local n_pts
    rp_i,           \* loop variable i
    rp_cloud,       \* the rows of pt_cloud filled so far
    rp_open,        \* TRUE while the handle f_in is open
    rp_err,         \* the exception that left the function ("none" if none)
    ch_pc,          \* close_small_holes_from_dsm: position in the function
    ch_in,          \* the raster of input_geotiff_fname: [pixel -> "nan" | "v"]
    ch_status,      \* what os.system(cmd) returned
    ch_out,         \* the file output_geotiff_fname: [kind, data]
    ch_array,       \* local cdsm_array
    ch_err,         \* the exception that left the function: [kind, status]
    so_pc,          \* compute_sift_order: position in the function
    so_C,           \* argument C
    so_order,       \* the pairs tmp_pairs[index] for index in sorted_indices
    so_k,           \* number of lines written to sift_order.txt
    so_lines,       \* the lines written to sift_order.txt
    so_open,        \* TRUE while the handle F is open
    so_err,         \* the exception that left the function ("none" if none)
    sg_pc,          \* save_geotiff: position in the function
    sg_args,        \* arguments [h, w, epsg_code, x, y, r]
    sg_profile,     \* local profile
    sg_open,        \* TRUE while the handle dst is open
    sg_raster       \* the raster written to filename ("none" if none)

gpVars == <<gp_pc, gp_order, gp_site, gp_file, gp_pos, gp_i, gp_pairs, gp_open, gp_err>>
cgVars == <<cg_pc, cg_C, cg_ncam, cg_min, cg_A, cg_tmp_pairs, cg_counts, cg_pairs,
            cg_matches, cg_Gnodes, cg_Gedges, cg_cc, cg_ncc, cg_missing, cg_err>>
pfVars == <<pf_pc, pf_bbx, pf_res, pf_std, pf_cnt, pf_aoi, pf_mask, pf_shape, pf_roi,
            pf_layers, pf_calls, pf_written, pf_dirs, pf_err>>
rpVars == <<rp_pc, rp_file, rp_content, rp_npts, rp_i, rp_cloud, rp_open, rp_err>>
chVars == <<ch_pc, ch_in, ch_status, ch_out, ch_array, ch_err>>
soVars == <<so_pc, so_C, so_order, so_k, so_lines, so_open, so_err>>
sgVars == <<sg_pc, sg_args, sg_profile, sg_open, sg_raster>>
ioVars == <<rpVars, chVars, soVars, sgVars>>
vars == <<gpVars, cgVars, pfVars, ioVars>>

(***************************************************************************)
(* Bounds of the model.                                                    *)
(***************************************************************************)
MaxLines == 52
MaxBlock == 2

(***************************************************************************)
(* Text helpers (Python str methods used by get_predefined_pairs).         *)
(***************************************************************************)
Digits == {"0", "1", "2", "3", "4", "5", "6", "7", "8", "9"}
Whitespace == {" ", "\n"}

DigitVal(c) ==
    CASE c = "0" -> 0 [] c = "1" -> 1 [] c = "2" -> 2 [] c = "3" -> 3
      [] c = "4" -> 4 [] c = "5" -> 5 [] c = "6" -> 6 [] c = "7" -> 7
      [] c = "8" -> 8 [] c = "9" -> 9

\* str.split(' '): cut at every single blank, empty fields kept, "\n" kept
RECURSIVE SplitBlank(_)
SplitBlank(s) ==
    IF \A k \in 1..Len(s) : s[k] # " "
    THEN <<s>>
    ELSE LET k == CHOOSE n \in 1..Len(s) :
                      s[n] = " " /\ \A m \in 1..(n-1) : s[m] # " "
         IN  <<SubSeq(s, 1, k-1)>> \o SplitBlank(SubSeq(s, k+1, Len(s)))

\* str.split(): cut at runs of whitespace, no empty fields
RECURSIVE SplitWs(_)
SplitWs(s) ==
    IF s = <<>> THEN <<>>
    ELSE IF s[1] \in Whitespace THEN SplitWs(Tail(s))
    ELSE LET ends == {n \in 1..Len(s) : s[n] \in Whitespace}
             k == IF ends = {} THEN Len(s) + 1
                  ELSE CHOOSE n \in ends : \A m \in ends : n <= m
         IN  <<SubSeq(s, 1, k-1)>> \o SplitWs(SubSeq(s, k, Len(s)))

\* str.isdigit()
IsDigit(s) == Len(s) > 0 /\ \A k \in 1..Len(s) : s[k] \in Digits

\* int(s) of a string of digits
RECURSIVE IntOf(_)
IntOf(s) ==
    IF s = <<>> THEN 0
    ELSE 10 * IntOf(SubSeq(s, 1, Len(s)-1)) + DigitVal(s[Len(s)])

\* os.path.basename
Basename(s) ==
    LET slashes == {n \in 1..Len(s) : s[n] = "/"}
        k == IF slashes = {} THEN 0
             ELSE CHOOSE n \in slashes : \A m \in slashes : m <= n
    IN  SubSeq(s, k+1, Len(s))

\* x in list
InList(x, list) == \E k \in 1..Len(list) : list[k] = x

\* list.index(x), 0-based, for x in list
IndexOf(x, list) ==
    (CHOOSE k \in 1..Len(list) :
        list[k] = x /\ \A m \in 1..(k-1) : list[m] # x) - 1

\* [f(x) for x in list]
MapBasename(list) == [k \in 1..Len(list) |-> Basename(list[k])]

\* [int(s) for s in current_str.split() if s.isdigit()]
IntsOf(current_str) ==
    LET digs == SelectSeq(SplitWs(current_str), IsDigit)
    IN  [k \in 1..Len(digs) |-> IntOf(digs[k])]

(***************************************************************************)
(* get_predefined_pairs                                                    *)
(***************************************************************************)
Limit == 50

\* argument myimages: the known images, as paths
myimages == << <<"d", "/", "a", ".tif">>, <<"d", "/", "b", ".tif">>,
               <<"c", ".tif">> >>

\* the lines a pair file is made of, without their line terminator
FileLines ==
    { <<"1", " ", "2">>,                               \* index form
      <<"1", "2", " ", "3">>,                          \* index form, 12 and 3
      <<"a", " ", "b">>,                               \* two basenames
      <<"a", ".tif", " ", "b", ".tif">>,               \* two file names
      <<"b", " ", "c", " ", "7">>,                     \* basenames and a score
      <<"x", "/", "c", ".tif", " ", "a", ".tif", " ">>,\* names, trailing blank
      <<"z", " ", "a", " ", "7">>,                     \* z is not a known image
      <<>> }                                           \* empty line

Blocks == UNION { [1..n -> FileLines] : n \in 1..MaxBlock }

\* the file of n lines that repeats block; the last line ends with a line
\* terminator iff final_newline
FileOf(block, n, final_newline) ==
    [k \in 1..n |->
        LET text == block[((k-1) % Len(block)) + 1]
        IN  IF k = n /\ ~final_newline THEN text ELSE text \o <<"\n">>]

\* f.readline(): the next line, or the empty string at end of file
Readline == IF gp_pos < Len(gp_file) THEN gp_file[gp_pos + 1] ELSE <<>>

AdvancePos == IF gp_pos < Len(gp_file) THEN gp_pos + 1 ELSE gp_pos

\* the call: with open(fname) as f
Open ==
    /\ gp_pc = "start"
    /\ gp_pc' = "loop"
    /\ gp_open' = TRUE
    /\ UNCHANGED <<gp_order, gp_site, gp_file, gp_pos, gp_i, gp_pairs, gp_err>>
    /\ UNCHANGED <<cgVars, pfVars, ioVars>>

\* one iteration of "for i in range(50)"
ReadIndexLine ==
    /\ gp_pc = "loop"
    /\ gp_order \in {"oracle", "sift"}
    /\ gp_i < Limit
    /\ LET a == IntsOf(Readline)
       IN  IF Len(a) < 2
           THEN /\ gp_pc' = "raised"
                /\ gp_err' = "IndexError"
                /\ gp_open' = FALSE
                /\ UNCHANGED <<gp_i, gp_pairs>>
           ELSE /\ gp_pairs' = Append(gp_pairs, <<a[1] - 1, a[2] - 1>>)
                /\ gp_i' = gp_i + 1
                /\ UNCHANGED <<gp_pc, gp_err, gp_open>>
    /\ gp_pos' = AdvancePos
    /\ UNCHANGED <<gp_order, gp_site, gp_file>>
    /\ UNCHANGED <<cgVars, pfVars, ioVars>>

\* the body shared by the two "while len(pairs) < 50" loops; suffix is what is
\* appended to each of the two fields before os.path.basename
NameLineBody(suffix) ==
    /\ Len(gp_pairs) < Limit
    /\ LET current_str == SplitBlank(Readline)
           myimages_fn == MapBasename(myimages)
       IN  IF Len(current_str) < 2
           THEN /\ gp_pc' = "raised"
                /\ gp_err' = "IndexError"
                /\ gp_open' = FALSE
                /\ UNCHANGED gp_pairs
           ELSE LET im1_fn == Basename(current_str[1] \o suffix)
                    im2_fn == Basename(current_str[2] \o suffix)
                IN  /\ gp_pairs' =
                          IF InList(im1_fn, myimages_fn) /\ InList(im2_fn, myimages_fn)
                          THEN Append(gp_pairs, <<IndexOf(im1_fn, myimages_fn),
                                                  IndexOf(im2_fn, myimages_fn)>>)
                          ELSE gp_pairs
                    /\ UNCHANGED <<gp_pc, gp_err, gp_open>>
    /\ gp_pos' = AdvancePos
    /\ UNCHANGED <<gp_order, gp_site, gp_file, gp_i>>
    /\ UNCHANGED <<cgVars, pfVars, ioVars>>

\* one iteration of the while loop of site 'IARPA'
ReadNameLineIARPA ==
    /\ gp_pc = "loop"
    /\ gp_order \notin {"oracle", "sift"}
    /\ gp_site = "IARPA"
    /\ NameLineBody(<<>>)

\* one iteration of the while loop of the other sites
ReadNameLineTif ==
    /\ gp_pc = "loop"
    /\ gp_order \notin {"oracle", "sift"}
    /\ gp_site # "IARPA"
    /\ NameLineBody(<<".tif">>)

\* the loop is over: leave the with block and return pairs
ReturnPairs ==
    /\ gp_pc = "loop"
    /\ IF gp_order \in {"oracle", "sift"} THEN gp_i >= Limit
                                          ELSE Len(gp_pairs) >= Limit
    /\ gp_pc' = "done"
    /\ gp_open' = FALSE
    /\ UNCHANGED <<gp_order, gp_site, gp_file, gp_pos, gp_i, gp_pairs, gp_err>>
    /\ UNCHANGED <<cgVars, pfVars, ioVars>>

GpIdle ==
    /\ gp_pc = "idle" /\ gp_order = "oracle" /\ gp_site = "IARPA"
    /\ gp_file = <<>> /\ gp_pos = 0 /\ gp_i = 0 /\ gp_pairs = <<>>
    /\ gp_open = FALSE /\ gp_err = "none"

GpInit ==
    /\ gp_pc = "start"
    /\ gp_order \in {"oracle", "sift", "heuristic"}
    /\ gp_site \in {"IARPA", "JAX"}
    /\ \E block \in Blocks, n \in 0..MaxLines, final_newline \in BOOLEAN :
           gp_file = FileOf(block, n, final_newline)
    /\ gp_pos = 0 /\ gp_i = 0 /\ gp_pairs = <<>>
    /\ gp_open = FALSE /\ gp_err = "none"

(***************************************************************************)
(* build_connectivity_graph                                                *)
(***************************************************************************)
MaxTracks == 2
MaxMin == 1
SmallCam == 2
SmallTracks == 1
MidCam == 3
WideCam == 5

Rows(C) == DOMAIN C
Tracks(C) == IF Rows(C) = {} THEN {} ELSE DOMAIN C[0]

\* ~np.isnan(C[r, :]) at column t
Observed(C, r, t) == C[r][t] # "nan"

\* np.sum(1*np.logical_and(1*~np.isnan(C[2*im1, :]), 1*~np.isnan(C[2*im2, :])))
NMatches(C, im1, im2) ==
    Cardinality({t \in Tracks(C) : Observed(C, 2*im1, t) /\ Observed(C, 2*im2, t)})

\* the pairs (im1, im2) in the order of the two nested range loops
RECURSIVE PairsFrom(_, _, _)
PairsFrom(im1, im2, n) ==
    IF im1 >= n THEN <<>>
    ELSE IF im2 >= n THEN PairsFrom(im1 + 1, im1 + 2, n)
    ELSE <<(<<im1, im2>>)>> \o PairsFrom(im1, im2 + 1, n)

\* the threshold test with an inclusive comparison
KeepEdgeInclusive(n_matches, min_matches) == n_matches >= min_matches

\* the threshold test of step (2)
KeepEdge(n_matches, min_matches) == n_matches > min_matches

\* the indices i of tmp_pairs that pass the threshold, in order
RECURSIVE KeptIndices(_, _, _)
KeptIndices(i, counts, min_matches) ==
    IF i > Len(counts) THEN <<>>
    ELSE (IF KeepEdge(counts[i], min_matches) THEN <<i>> ELSE <<>>)
         \o KeptIndices(i + 1, counts, min_matches)

\* G.add_edge for every edge: the nodes in insertion order
RECURSIVE NodesOf(_, _)
NodesOf(edges, nodes) ==
    IF edges = <<>> THEN nodes
    ELSE LET u == Head(edges)[1]
             v == Head(edges)[2]
             n1 == IF InList(u, nodes) THEN nodes ELSE Append(nodes, u)
             n2 == IF InList(v, n1) THEN n1 ELSE Append(n1, v)
         IN  NodesOf(Tail(edges), n2)

\* the nodes reachable from the set S (the breadth-first search of networkx)
RECURSIVE Reach(_, _)
Reach(S, edges) ==
    LET next == S \cup {w \in UNION edges : \E e \in edges : w \in e /\ e \cap S # {}}
    IN  IF next = S THEN S ELSE Reach(next, edges)

\* nx.connected_components(G): one component per node not seen yet, in node order
RECURSIVE ConnectedComponents(_, _, _)
ConnectedComponents(nodes, seen, edges) ==
    IF nodes = <<>> THEN <<>>
    ELSE IF Head(nodes) \in seen THEN ConnectedComponents(Tail(nodes), seen, edges)
    ELSE LET c == Reach({Head(nodes)}, edges)
         IN  <<c>> \o ConnectedComponents(Tail(nodes), seen \cup c, edges)

\* the component G_cc whose nodes are subtracted from the cameras
MainComponent(G_cc) == G_cc[1]

\* step (1): the connectivity matrix A
Adjacency ==
    /\ cg_pc = "start"
    /\ LET n_cam == Cardinality(Rows(cg_C)) \div 2
           tmp == PairsFrom(0, 1, n_cam)
       IN  /\ cg_ncam' = n_cam
           /\ cg_tmp_pairs' = tmp
           /\ cg_counts' = [k \in 1..Len(tmp) |-> NMatches(cg_C, tmp[k][1], tmp[k][2])]
           /\ cg_A' = [p \in (0..(n_cam-1)) \X (0..(n_cam-1)) |->
                         IF p[1] = p[2] THEN 0
                         ELSE IF p[1] < p[2] THEN NMatches(cg_C, p[1], p[2])
                         ELSE NMatches(cg_C, p[2], p[1])]
    /\ cg_pc' = "filter"
    /\ UNCHANGED <<cg_C, cg_min, cg_pairs, cg_matches, cg_Gnodes, cg_Gedges,
                   cg_cc, cg_ncc, cg_missing, cg_err>>
    /\ UNCHANGED <<gpVars, pfVars, ioVars>>

\* step (2): filter the edges by the threshold on the number of matches
FilterEdges ==
    /\ cg_pc = "filter"
    /\ LET kept == KeptIndices(1, cg_counts, cg_min)
       IN  /\ cg_pairs' = [k \in 1..Len(kept) |-> cg_tmp_pairs[kept[k]]]
           /\ cg_matches' = [k \in 1..Len(kept) |-> cg_counts[kept[k]]]
    /\ cg_pc' = "graph"
    /\ UNCHANGED <<cg_C, cg_ncam, cg_min, cg_A, cg_tmp_pairs, cg_counts,
                   cg_Gnodes, cg_Gedges, cg_cc, cg_ncc, cg_missing, cg_err>>
    /\ UNCHANGED <<gpVars, pfVars, ioVars>>

\* step (3): G = nx.Graph() and one add_edge per pair of pairs_to_draw
MakeGraph ==
    /\ cg_pc = "graph"
    /\ cg_Gnodes' = NodesOf(cg_pairs, <<>>)
    /\ cg_Gedges' = {{cg_pairs[k][1], cg_pairs[k][2]} : k \in 1..Len(cg_pairs)}
    /\ cg_pc' = "components"
    /\ UNCHANGED <<cg_C, cg_ncam, cg_min, cg_A, cg_tmp_pairs, cg_counts,
                   cg_pairs, cg_matches, cg_cc, cg_ncc, cg_missing, cg_err>>
    /\ UNCHANGED <<gpVars, pfVars, ioVars>>

\* G_cc, n_cc and missing_cams; G_cc[0] of an empty list raises IndexError
Components ==
    /\ cg_pc = "components"
    /\ LET G_cc == ConnectedComponents(cg_Gnodes, {}, cg_Gedges)
       IN  /\ cg_cc' = G_cc
           /\ cg_ncc' = Len(G_cc)
           /\ IF G_cc = <<>>
              THEN /\ cg_pc' = "raised"
                   /\ cg_err' = "IndexError"
                   /\ UNCHANGED cg_missing
              ELSE /\ cg_missing' = (0..(cg_ncam-1)) \ MainComponent(G_cc)
                   /\ cg_pc' = "report"
                   /\ UNCHANGED cg_err
    /\ UNCHANGED <<cg_C, cg_ncam, cg_min, cg_A, cg_tmp_pairs, cg_counts,
                   cg_pairs, cg_matches, cg_Gnodes, cg_Gedges>>
    /\ UNCHANGED <<gpVars, pfVars, ioVars>>

\* the prints under verbose (min of an empty list raises ValueError), and the return
ReturnGraph ==
    /\ cg_pc = "report"
    /\ \E verbose \in BOOLEAN :
          IF verbose /\ cg_matches = <<>>
          THEN cg_pc' = "raised" /\ cg_err' = "ValueError"
          ELSE cg_pc' = "done" /\ UNCHANGED cg_err
    /\ UNCHANGED <<cg_C, cg_ncam, cg_min, cg_A, cg_tmp_pairs, cg_counts, cg_pairs,
                   cg_matches, cg_Gnodes, cg_Gedges, cg_cc, cg_ncc, cg_missing>>
    /\ UNCHANGED <<gpVars, pfVars, ioVars>>

CgLocalsInit ==
    /\ cg_ncam = 0 /\ cg_A = <<>> /\ cg_tmp_pairs = <<>> /\ cg_counts = <<>>
    /\ cg_pairs = <<>> /\ cg_matches = <<>> /\ cg_Gnodes = <<>> /\ cg_Gedges = {}
    /\ cg_cc = <<>> /\ cg_ncc = 0 /\ cg_missing = {} /\ cg_err = "none"

CgIdle ==
    /\ cg_pc = "idle" /\ cg_C = <<>> /\ cg_min = 0
    /\ CgLocalsInit

\* every matrix of up to SmallCam cameras and SmallTracks tracks, each entry
\* NaN or a number
FreeMatrices ==
    UNION { [0..(2*n - 1) -> [1..t -> {"nan", "val"}]] :
              n \in 1..SmallCam, t \in 1..SmallTracks }

\* the matrix in which camera i observes exactly the tracks obs[i]
PairedMatrix(n, t, obs) ==
    [r \in 0..(2*n - 1) |->
        [k \in 1..t |-> IF k \in obs[r \div 2] THEN "val" ELSE "nan"]]

\* the matrices of up to MidCam cameras whose (x, y) rows are NaN together
PairedMatrices ==
    UNION { { PairedMatrix(n, t, obs) : obs \in [0..(n-1) -> SUBSET (1..t)] } :
              n \in 1..MidCam, t \in 1..MaxTracks }

\* the matrices of up to WideCam cameras in which a camera observes at most
\* one track (seen[i] = 0: camera i observes none)
SingleTrackMatrices ==
    UNION { { PairedMatrix(n, t, [i \in 0..(n-1) |-> {seen[i]} \ {0}]) :
                seen \in [0..(n-1) -> 0..t] } :
              n \in 1..WideCam, t \in 1..MaxTracks }

\* the matrices C the functions are run on
ConnectivityMatrices == FreeMatrices \cup PairedMatrices \cup SingleTrackMatrices

CgInit ==
    /\ cg_pc = "start"
    /\ cg_C \in ConnectivityMatrices
    /\ cg_min \in 0..MaxMin
    /\ CgLocalsInit

(***************************************************************************)
(* run_plyflatten                                                          *)
(* Lengths are exact multiples of 1/Scale metre, so that floor and ceil    *)
(* are computed on rationals.                                              *)
(***************************************************************************)
Scale == 2
MaxCoord == 2
MaxRes == 2

\* a / b rounded toward zero, as an integer conversion without np.floor does
FloorTruncating(a, b) ==
    IF (a >= 0 /\ b > 0) \/ (a <= 0 /\ b < 0)
    THEN (IF b > 0 THEN a \div b ELSE (0 - a) \div (0 - b))
    ELSE 0 - ((IF a < 0 THEN 0 - a ELSE a) \div (IF b < 0 THEN 0 - b ELSE b))

\* np.floor(a / b) for b # 0
Floor(a, b) == IF b > 0 THEN a \div b ELSE (0 - a) \div (0 - b)

\* np.ceil(a / b) for b # 0
Ceil(a, b) == 0 - Floor(0 - a, b)

\* xoff = np.floor(utm_bbx['xmin'] / resolution) * resolution
XOff(bbx, res) == Floor(bbx.xmin, res) * res

\* yoff rounded down instead of up
YOffRoundedDown(bbx, res) == Floor(bbx.ymax, res) * res

\* yoff = np.ceil(utm_bbx['ymax'] / resolution) * resolution
YOff(bbx, res) == Ceil(bbx.ymax, res) * res

\* xsize = int(np.floor((utm_bbx['xmax'] - utm_bbx['xmin']) / resolution) + 1)
XSize(bbx, res) == Floor(bbx.xmax - bbx.xmin, res) + 1

\* ysize = int(np.floor((utm_bbx['ymax'] - utm_bbx['ymin']) / resolution) + 1)
YSize(bbx, res) == Floor(bbx.ymax - bbx.ymin, res) + 1

\* raster.shape[2] of what plyflatten_from_plyfiles_list may return
LayersReturned(std) == IF std THEN {2, 3} ELSE {1}

\* the count layer taken from the middle of the layers
CountLayerMiddle(n) == n \div 2

\* raster[:, :, -1] of a raster of n layers
CountLayer(n) == n - 1

\* raster[:, :, n // 2] of a raster of n layers
StdLayer(n) == n \div 2

NoRoi == [xoff |-> 0, yoff |-> 0, xsize |-> 0, ysize |-> 0]

\* compute roi from utm bounding box; a zero resolution makes the division
\* raise (Python floats) or the int conversion of inf / nan raise (numpy floats)
ComputeRoi ==
    /\ pf_pc = "start"
    /\ IF pf_res = 0
       THEN /\ pf_pc' = "raised"
            /\ \E numpy \in BOOLEAN :
                  pf_err' = IF ~numpy THEN "ZeroDivisionError"
                            ELSE IF pf_bbx.xmax = pf_bbx.xmin THEN "ValueError"
                            ELSE "OverflowError"
            /\ UNCHANGED pf_roi
       ELSE /\ pf_roi' = [xoff |-> XOff(pf_bbx, pf_res), yoff |-> YOff(pf_bbx, pf_res),
                          xsize |-> XSize(pf_bbx, pf_res), ysize |-> YSize(pf_bbx, pf_res)]
            /\ pf_pc' = "flatten"
            /\ UNCHANGED pf_err
    /\ UNCHANGED <<pf_bbx, pf_res, pf_std, pf_cnt, pf_aoi, pf_mask, pf_shape, pf_layers,
                   pf_calls, pf_written, pf_dirs>>
    /\ UNCHANGED <<gpVars, cgVars, ioVars>>

\* raster, profile = plyflatten_from_plyfiles_list(ply_list, resolution, roi=roi, std=std)
\* what the backend does with an empty or negative roi is not fixed by this code
Plyflatten ==
    /\ pf_pc = "flatten"
    /\ pf_calls' = pf_calls + 1
    /\ \/ /\ pf_layers' \in LayersReturned(pf_std)
          /\ pf_shape' = pf_layers'
          /\ pf_pc' = "dsm"
          /\ UNCHANGED pf_err
       \/ /\ pf_roi.xsize <= 0 \/ pf_roi.ysize <= 0 \/ pf_res < 0
          /\ pf_pc' = "raised"
          /\ pf_err' = "BackendError"
          /\ UNCHANGED <<pf_layers, pf_shape>>
    /\ UNCHANGED <<pf_bbx, pf_res, pf_std, pf_cnt, pf_aoi, pf_mask, pf_roi, pf_written, pf_dirs>>
    /\ UNCHANGED <<gpVars, cgVars, ioVars>>

\* the mask (all ones without an area of interest), then write dsm:
\* os.makedirs of the output directory and layer 0, masked
WriteDsm ==
    /\ pf_pc = "dsm"
    /\ pf_mask' = (IF pf_aoi THEN "aoi" ELSE "ones")
    /\ pf_dirs' = pf_dirs \cup {"out"}
    /\ pf_written' = pf_written \cup {[file |-> "dsm", layer |-> 0, mask |-> pf_mask']}
    /\ pf_pc' = IF pf_std THEN "count" ELSE "done"
    /\ UNCHANGED <<pf_bbx, pf_res, pf_std, pf_cnt, pf_aoi, pf_shape, pf_roi, pf_layers,
                   pf_calls, pf_err>>
    /\ UNCHANGED <<gpVars, cgVars, ioVars>>

\* under std: an odd number of layers means a trailing count layer, written
\* to cnt/ if cnt, and removed from raster
StripCount ==
    /\ pf_pc = "count"
    /\ IF pf_layers % 2 = 1
       THEN /\ IF pf_cnt
               THEN /\ pf_dirs' = pf_dirs \cup {"out/cnt"}
                    /\ pf_written' = pf_written \cup
                          {[file |-> "cnt", layer |-> CountLayer(pf_layers),
                            mask |-> pf_mask]}
               ELSE UNCHANGED <<pf_dirs, pf_written>>
            /\ pf_layers' = pf_layers - 1
       ELSE UNCHANGED <<pf_dirs, pf_written, pf_layers>>
    /\ pf_pc' = "std"
    /\ UNCHANGED <<pf_bbx, pf_res, pf_std, pf_cnt, pf_aoi, pf_mask, pf_shape, pf_roi,
                   pf_calls, pf_err>>
    /\ UNCHANGED <<gpVars, cgVars, ioVars>>

\* write remaining extra layers with the std
WriteStd ==
    /\ pf_pc = "std"
    /\ pf_dirs' = pf_dirs \cup {"out/std"}
    /\ IF pf_layers % 2 = 0
       THEN /\ pf_written' = pf_written \cup
                  {[file |-> "std", layer |-> StdLayer(pf_layers), mask |-> pf_mask]}
            /\ pf_pc' = "done"
            /\ UNCHANGED pf_err
       ELSE /\ pf_pc' = "raised"
            /\ pf_err' = "AssertionError"
            /\ UNCHANGED pf_written
    /\ UNCHANGED <<pf_bbx, pf_res, pf_std, pf_cnt, pf_aoi, pf_mask, pf_shape, pf_roi,
                   pf_layers, pf_calls>>
    /\ UNCHANGED <<gpVars, cgVars, ioVars>>

PfLocalsInit ==
    /\ pf_roi = NoRoi /\ pf_layers = 0 /\ pf_calls = 0
    /\ pf_mask = "none" /\ pf_shape = 0
    /\ pf_written = {} /\ pf_dirs = {} /\ pf_err = "none"

PfIdle ==
    /\ pf_pc = "idle"
    /\ pf_bbx = [xmin |-> 0, xmax |-> 0, ymin |-> 0, ymax |-> 0]
    /\ pf_res = 1 /\ pf_std = FALSE /\ pf_cnt = FALSE /\ pf_aoi = FALSE
    /\ PfLocalsInit

\* xmin = 0, xmax = 9.5, ymin = 0, ymax = 4.5 and resolution 1
ExampleBBox == [xmin |-> 0, xmax |-> 19, ymin |-> 0, ymax |-> 9]
ExampleRes == Scale

Coord == (0 - MaxCoord)..MaxCoord

PfInit ==
    /\ pf_pc = "start"
    /\ \/ /\ pf_bbx \in [xmin : Coord, xmax : Coord, ymin : Coord, ymax : Coord]
          /\ pf_res \in (0 - 1)..MaxRes
       \/ /\ pf_bbx = ExampleBBox
          /\ pf_res = ExampleRes
    /\ pf_std \in BOOLEAN
    /\ pf_cnt \in BOOLEAN
    /\ pf_aoi \in BOOLEAN
    /\ PfLocalsInit


(***************************************************************************)
(* write_point_cloud_ply and read_point_cloud_ply                          *)
(* A line is the sequence of its blank-separated words, "\n" last.         *)
(***************************************************************************)
MaxPts == 2

HeaderLength == 7

\* the text of the numbers that occur in the files
NumberWords == {"0", "1", "2", "3", "4", "255", "1.0", "2.0"}

\* '{}'.format(n) of a small count
CountWord(n) ==
    CASE n = 0 -> "0" [] n = 1 -> "1" [] n = 2 -> "2" [] n = 3 -> "3" [] OTHER -> "4"

\* float(word)
FloatOf(word) ==
    CASE word = "0" -> 0 [] word = "1" -> 1 [] word = "2" -> 2 [] word = "3" -> 3
      [] word = "4" -> 4 [] word = "255" -> 255 [] word = "1.0" -> 1 [] word = "2.0" -> 2

\* the points of a cloud, as '{} {} {}'.format writes their coordinates
PointWords == { <<"1.0", "2.0", "1.0">>, <<"2.0", "2.0", "1.0">> }

\* write_point_cloud_ply: the lines written for point_cloud; colored iff
\* color is not (255, 255, 255), here color = (0, 0, 255)
WritePly(point_cloud, colored) ==
    << <<"ply", "\n">>,
       <<"format", "ascii", "1.0", "\n">>,
       <<"element", "vertex", CountWord(Len(point_cloud)), "\n">>,
       <<"property", "float", "x", "\n">>,
       <<"property", "float", "y", "\n">>,
       <<"property", "float", "z", "\n">> >>
    \o (IF colored
        THEN << <<"property", "uchar", "red", "\n">>,
                <<"property", "uchar", "green", "\n">>,
                <<"property", "uchar", "blue", "\n">>,
                <<"property", "uchar", "alpha", "\n">>,
                <<"element", "face", "0", "\n">>,
                <<"property", "list", "uchar", "int", "vertex_indices", "\n">> >>
        ELSE <<>>)
    \o << <<"end_header", "\n">> >>
    \o [k \in 1..Len(point_cloud) |->
           point_cloud[k]
           \o (IF colored THEN <<"0", "0", "255", "255">> ELSE <<>>)
           \o <<"\n">>]

\* x.strip()
Strip(line) == SelectSeq(line, LAMBDA w : w # "\n")

\* re.findall(r"[-+]?\d*\.\d+|\d+", line): the numbers of the line
FindNumbers(line) == SelectSeq(line, LAMBDA w : w \in NumberWords)

\* content[i+7], counted from 1
FirstRowAfterHeader(i) == i + HeaderLength + 1

\* with open(filename, 'r'): readlines, strip, n_pts and the allocation of
\* pt_cloud; np.zeros raises ValueError for a negative n_pts
ReadLines ==
    /\ rp_pc = "start"
    /\ rp_content' = [k \in 1..Len(rp_file) |-> Strip(rp_file[k])]
    /\ rp_npts' = Len(rp_file) - HeaderLength
    /\ IF Len(rp_file) - HeaderLength < 0
       THEN rp_pc' = "raised" /\ rp_err' = "ValueError" /\ rp_open' = FALSE
       ELSE rp_pc' = "loop" /\ rp_open' = TRUE /\ UNCHANGED rp_err
    /\ UNCHANGED <<rp_file, rp_i, rp_cloud>>
    /\ UNCHANGED <<gpVars, cgVars, pfVars, chVars, soVars, sgVars>>

\* one iteration of "for i in range(n_pts)"
ParseRow ==
    /\ rp_pc = "loop"
    /\ rp_i < rp_npts
    /\ LET coords == FindNumbers(rp_content[FirstRowAfterHeader(rp_i)])
       IN  IF Len(coords) < 3
           THEN /\ rp_pc' = "raised" /\ rp_err' = "IndexError" /\ rp_open' = FALSE
                /\ UNCHANGED <<rp_i, rp_cloud>>
           ELSE /\ rp_cloud' = Append(rp_cloud, <<FloatOf(coords[1]), FloatOf(coords[2]),
                                                  FloatOf(coords[3])>>)
                /\ rp_i' = rp_i + 1
                /\ UNCHANGED <<rp_pc, rp_err, rp_open>>
    /\ UNCHANGED <<rp_file, rp_content, rp_npts>>
    /\ UNCHANGED <<gpVars, cgVars, pfVars, chVars, soVars, sgVars>>

\* return pt_cloud
ReturnCloud ==
    /\ rp_pc = "loop"
    /\ rp_i >= rp_npts
    /\ rp_pc' = "done"
    /\ rp_open' = FALSE
    /\ UNCHANGED <<rp_file, rp_content, rp_npts, rp_i, rp_cloud, rp_err>>
    /\ UNCHANGED <<gpVars, cgVars, pfVars, chVars, soVars, sgVars>>

RpLocalsInit ==
    /\ rp_content = <<>> /\ rp_npts = 0 /\ rp_i = 0 /\ rp_cloud = <<>>
    /\ rp_open = FALSE /\ rp_err = "none"

RpIdle == rp_pc = "idle" /\ rp_file = <<>> /\ RpLocalsInit

PointClouds == UNION { [1..n -> PointWords] : n \in 0..MaxPts }

\* the files write_point_cloud_ply writes
WrittenFiles == { WritePly(pc, colored) : pc \in PointClouds, colored \in BOOLEAN }

\* the same files cut short, without their format line, or without header
PlyFiles ==
    WrittenFiles
    \cup UNION { { SubSeq(f, 1, k) : k \in 0..Len(f) } : f \in WrittenFiles }
    \cup { <<f[1]>> \o SubSeq(f, 3, Len(f)) : f \in WrittenFiles }
    \cup { SubSeq(WritePly(pc, FALSE), HeaderLength + 1, HeaderLength + Len(pc)) :
             pc \in PointClouds }

RpInit == rp_pc = "start" /\ rp_file \in PlyFiles /\ RpLocalsInit


(***************************************************************************)
(* close_small_holes_from_dsm                                              *)
(***************************************************************************)
MaxPix == 3
MaxStatus == 2

Pixels == 1..MaxPix
Rasters == [Pixels -> {"nan", "v"}]

NoFile == [kind |-> "absent", data |-> <<>>]
NoError == [kind |-> "none", status |-> "none"]

\* plambda "x isfinite x y isfinite y nan if if": the input where it is
\* finite, else the closing of morsi
FilterResult(input, closing) ==
    [k \in Pixels |-> IF input[k] # "nan" THEN input[k] ELSE closing[k]]

\* os.system(cmd): the status is returned and not looked at; a failed filter
\* leaves no output file or a truncated one
RunFilter ==
    /\ ch_pc = "start"
    /\ \E status \in 0..MaxStatus, closing \in Rasters :
          /\ ch_status' = status
          /\ IF status = 0
             THEN ch_out' = [kind |-> "filter", data |-> FilterResult(ch_in, closing)]
             ELSE ch_out' \in {NoFile, [kind |-> "partial", data |-> <<>>]}
    /\ ch_pc' = "read"
    /\ UNCHANGED <<ch_in, ch_array, ch_err>>
    /\ UNCHANGED <<gpVars, cgVars, pfVars, rpVars, soVars, sgVars>>

\* read imscript result: rasterio.open(output_geotiff_fname) and read(1)
ReadResult ==
    /\ ch_pc = "read"
    /\ \/ /\ ch_out.kind = "filter"
          /\ ch_array' = ch_out.data
          /\ ch_pc' = "rm"
          /\ UNCHANGED ch_err
       \/ /\ ch_pc' = "raised"
          /\ ch_err' = [kind |-> "RasterioIOError", status |-> "none"]
          /\ UNCHANGED ch_array
    /\ UNCHANGED <<ch_in, ch_status, ch_out>>
    /\ UNCHANGED <<gpVars, cgVars, pfVars, rpVars, soVars, sgVars>>

\* os.system('rm {}'.format(output_geotiff_fname))
RemoveResult ==
    /\ ch_pc = "rm"
    /\ ch_out' = NoFile
    /\ ch_pc' = "write"
    /\ UNCHANGED <<ch_in, ch_status, ch_array, ch_err>>
    /\ UNCHANGED <<gpVars, cgVars, pfVars, rpVars, soVars, sgVars>>

\* write imscript result with same metadata as input geotiff
RewriteResult ==
    /\ ch_pc = "write"
    /\ \/ /\ ch_out' = [kind |-> "final", data |-> ch_array]
          /\ ch_pc' = "done"
          /\ UNCHANGED ch_err
       \/ /\ ch_out' \in {NoFile, [kind |-> "broken", data |-> <<>>]}
          /\ ch_pc' = "raised"
          /\ ch_err' = [kind |-> "RasterioIOError", status |-> "none"]
    /\ UNCHANGED <<ch_in, ch_status, ch_array>>
    /\ UNCHANGED <<gpVars, cgVars, pfVars, rpVars, soVars, sgVars>>

ChLocalsInit == ch_status = 0 /\ ch_out = NoFile /\ ch_array = <<>> /\ ch_err = NoError

ChIdle == ch_pc = "idle" /\ ch_in = <<>> /\ ChLocalsInit

ChInit == ch_pc = "start" /\ ch_in \in Rasters /\ ChLocalsInit

(***************************************************************************)
(* compute_sift_order                                                      *)
(***************************************************************************)
\* np.sum(np.sum(np.vstack((obs_im1, obs_im2)), axis=0) == 2)
SiftMatches(C, im1, im2) ==
    Cardinality({t \in Tracks(C) : Observed(C, 2*im1, t) /\ Observed(C, 2*im2, t)})

\* np.flip(np.argsort(counts)): by decreasing count, equal counts by
\* decreasing index (the sort of a short array is stable)
RECURSIVE SortedIndices(_, _)
SortedIndices(counts, left) ==
    IF left = {} THEN <<>>
    ELSE LET top == CHOOSE k \in left : \A m \in left :
                        \/ counts[m] < counts[k]
                        \/ counts[m] = counts[k] /\ m <= k
         IN  <<top>> \o SortedIndices(counts, left \ {top})

\* '{}'.format(n) for n < 10
DecimalOf(n) == CHOOSE c \in Digits : DigitVal(c) = n

\* '{} {}\n'.format(pair[0]+1, pair[1]+1)
OrderLine(pair) == <<DecimalOf(pair[1] + 1), " ", DecimalOf(pair[2] + 1), "\n">>

\* the counts, the sort and F = open(output_fname, 'w')
OpenOrder ==
    /\ so_pc = "start"
    /\ LET n_cam == Cardinality(Rows(so_C)) \div 2
           tmp_pairs == PairsFrom(0, 1, n_cam)
           counts == [k \in 1..Len(tmp_pairs) |->
                         SiftMatches(so_C, tmp_pairs[k][1], tmp_pairs[k][2])]
           sorted_indices == SortedIndices(counts, 1..Len(tmp_pairs))
       IN  so_order' = [k \in 1..Len(tmp_pairs) |-> tmp_pairs[sorted_indices[k]]]
    /\ so_open' = TRUE
    /\ so_pc' = "write"
    /\ UNCHANGED <<so_C, so_k, so_lines, so_err>>
    /\ UNCHANGED <<gpVars, cgVars, pfVars, rpVars, chVars, sgVars>>

\* one F.write of the loop; a write that fails raises out of the function
\* and F.close() is not reached
WriteOrderLine ==
    /\ so_pc = "write"
    /\ so_k < Len(so_order)
    /\ \/ /\ so_lines' = Append(so_lines, OrderLine(so_order[so_k + 1]))
          /\ so_k' = so_k + 1
          /\ UNCHANGED <<so_pc, so_err>>
       \/ /\ so_pc' = "raised"
          /\ so_err' = "OSError"
          /\ UNCHANGED <<so_k, so_lines>>
    /\ UNCHANGED <<so_C, so_order, so_open>>
    /\ UNCHANGED <<gpVars, cgVars, pfVars, rpVars, chVars, sgVars>>

\* F.close() and the print
CloseOrder ==
    /\ so_pc = "write"
    /\ so_k >= Len(so_order)
    /\ so_open' = FALSE
    /\ so_pc' = "done"
    /\ UNCHANGED <<so_C, so_order, so_k, so_lines, so_err>>
    /\ UNCHANGED <<gpVars, cgVars, pfVars, rpVars, chVars, sgVars>>

SoLocalsInit ==
    /\ so_order = <<>> /\ so_k = 0 /\ so_lines = <<>>
    /\ so_open = FALSE /\ so_err = "none"

SoIdle == so_pc = "idle" /\ so_C = <<>> /\ SoLocalsInit

SoInit == so_pc = "start" /\ so_C \in ConnectivityMatrices /\ SoLocalsInit

(***************************************************************************)
(* save_geotiff                                                            *)
(* x, y and r are multiples of 1/(2*Scale) metre, so that r / 2 is exact.  *)
(***************************************************************************)
MaxSide == 2

\* 'crs': 'epsg:32614'
ProfileCrs == 32614

\* epsg codes a caller passes: UTM zones 14 north, 21 south, 31 north
EpsgCodes == {32614, 32721, 32631}

\* the value of profile['crs'] for a call with epsg_code
CrsOf(epsg_code) == ProfileCrs

\* profile = {...} and rasterio.open(filename, 'w', **profile)
OpenGeotiff ==
    /\ sg_pc = "start"
    /\ sg_profile' = [driver |-> "GTiff", count |-> 1,
                      width |-> sg_args.w, height |-> sg_args.h,
                      dtype |-> "float64",
                      crs |-> CrsOf(sg_args.epsg_code),
                      west |-> sg_args.x - (sg_args.r \div 2),
                      north |-> sg_args.y + (sg_args.r \div 2),
                      xsize |-> sg_args.r, ysize |-> sg_args.r]
    /\ sg_open' = TRUE
    /\ sg_pc' = "write"
    /\ UNCHANGED <<sg_args, sg_raster>>
    /\ UNCHANGED <<gpVars, cgVars, pfVars, rpVars, chVars, soVars>>

\* dst.write(np.asarray([input_im])) and the end of the with block
WriteGeotiff ==
    /\ sg_pc = "write"
    /\ sg_raster' = [bands |-> 1, crs |-> sg_profile.crs,
                     width |-> sg_profile.width, height |-> sg_profile.height,
                     west |-> sg_profile.west, north |-> sg_profile.north,
                     pixel |-> sg_profile.xsize]
    /\ sg_open' = FALSE
    /\ sg_pc' = "done"
    /\ UNCHANGED <<sg_args, sg_profile>>
    /\ UNCHANGED <<gpVars, cgVars, pfVars, rpVars, chVars, soVars>>

SgLocalsInit == sg_profile = "none" /\ sg_open = FALSE /\ sg_raster = "none"

SgIdle ==
    /\ sg_pc = "idle"
    /\ sg_args = [h |-> 1, w |-> 1, epsg_code |-> ProfileCrs, x |-> 0, y |-> 0, r |-> 2]
    /\ SgLocalsInit

SgInit ==
    /\ sg_pc = "start"
    /\ sg_args \in [h : 1..MaxSide, w : 1..MaxSide, epsg_code : EpsgCodes,
                    x : 0..1, y : 0..1, r : {2, 4}]
    /\ SgLocalsInit

IoIdle == RpIdle /\ ChIdle /\ SoIdle /\ SgIdle

(***************************************************************************)
(* Specifications: one per function, the other functions not called.       *)
(***************************************************************************)
InitPairs == GpInit /\ CgIdle /\ PfIdle /\ IoIdle
NextPairs == Open \/ ReadIndexLine \/ ReadNameLineIARPA \/ ReadNameLineTif \/ ReturnPairs
SpecPairs == InitPairs /\ [][NextPairs]_vars

InitGraph == GpIdle /\ CgInit /\ PfIdle /\ IoIdle
NextGraph == Adjacency \/ FilterEdges \/ MakeGraph \/ Components \/ ReturnGraph
SpecGraph == InitGraph /\ [][NextGraph]_vars

InitGrid == GpIdle /\ CgIdle /\ PfInit /\ IoIdle
NextGrid == ComputeRoi \/ Plyflatten \/ WriteDsm \/ StripCount \/ WriteStd
SpecGrid == InitGrid /\ [][NextGrid]_vars

OldIdle == GpIdle /\ CgIdle /\ PfIdle

InitPly == OldIdle /\ RpInit /\ ChIdle /\ SoIdle /\ SgIdle
NextPly == ReadLines \/ ParseRow \/ ReturnCloud
SpecPly == InitPly /\ [][NextPly]_vars

InitHoles == OldIdle /\ RpIdle /\ ChInit /\ SoIdle /\ SgIdle
NextHoles == RunFilter \/ ReadResult \/ RemoveResult \/ RewriteResult
SpecHoles == InitHoles /\ [][NextHoles]_vars

InitSift == OldIdle /\ RpIdle /\ ChIdle /\ SoInit /\ SgIdle
NextSift == OpenOrder \/ WriteOrderLine \/ CloseOrder
SpecSift == InitSift /\ [][NextSift]_vars

InitGeotiff == OldIdle /\ RpIdle /\ ChIdle /\ SoIdle /\ SgInit
NextGeotiff == OpenGeotiff \/ WriteGeotiff
SpecGeotiff == InitGeotiff /\ [][NextGeotiff]_vars

(***************************************************************************)
(* Properties of get_predefined_pairs                                      *)
(***************************************************************************)
\* C1: when the pair file is exhausted before 50 valid pairs are collected,
\* the function returns the pairs found so far and raises no error: the step
\* taken at the end of the file is the return, with pairs as it is.
C1_PartialListAtEndOfFile ==
    [][(gp_pc = "loop" /\ gp_pos = Len(gp_file))
         => (gp_pc' = "done" /\ gp_pairs' = gp_pairs)]_vars

\* the first n elements of a sequence
Take(s, n) == SubSeq(s, 1, IF Len(s) < n THEN Len(s) ELSE n)

\* the fields of a line of the pair file: its text without the line terminator,
\* cut at blanks
LineFields(line) == SplitWs(line)

\* the two file names a line of the pair file stands for under the site convention
LineNames(line, site) ==
    LET suffix == IF site = "IARPA" THEN <<>> ELSE <<".tif">>
    IN  <<Basename(LineFields(line)[1] \o suffix), Basename(LineFields(line)[2] \o suffix)>>

\* a line is resolvable when it has two names and both are known images
Resolvable(line, site) ==
    /\ Len(LineFields(line)) >= 2
    /\ InList(LineNames(line, site)[1], MapBasename(myimages))
    /\ InList(LineNames(line, site)[2], MapBasename(myimages))

\* the index pairs of the resolvable lines among lines, in file order
RECURSIVE ResolvedPairs(_, _)
ResolvedPairs(lines, site) ==
    IF lines = <<>> THEN <<>>
    ELSE (IF Resolvable(Head(lines), site)
          THEN << <<IndexOf(LineNames(Head(lines), site)[1], MapBasename(myimages)),
                    IndexOf(LineNames(Head(lines), site)[2], MapBasename(myimages))>> >>
          ELSE <<>>)
         \o ResolvedPairs(Tail(lines), site)

\* C7: in filename form the pairs collected are the first 50 resolvable pairs
\* of the lines read, in file order: a line whose two names (with '.tif'
\* appended unless the site is 'IARPA') are known images adds their indices,
\* any other line is skipped without being counted.
C7_FirstResolvablePairs ==
    (gp_order = "heuristic" /\ gp_pc \in {"loop", "done"})
        => gp_pairs = Take(ResolvedPairs(SubSeq(gp_file, 1, gp_pos), gp_site), Limit)

(***************************************************************************)
(* Properties of build_connectivity_graph                                  *)
(***************************************************************************)
Cams == 0..(cg_ncam - 1)

AdjacencyBuilt == cg_pc \in {"filter", "graph", "components", "report", "done", "raised"}
EdgesFiltered == cg_pc \in {"graph", "components", "report", "done", "raised"}
ComponentsFound == cg_pc \in {"report", "done"}

\* the pairs of pairs_to_draw, as a set
EdgeList == {cg_pairs[k] : k \in 1..Len(cg_pairs)}

\* C2: with zero camera pairs above the threshold the function does not
\* fail: it returns, and every camera index 0..n_cam-1 is reported missing.
C2_ZeroEdgesNotFatal ==
    (EdgesFiltered /\ cg_pairs = <<>>)
        => /\ cg_pc # "raised"
           /\ (cg_pc = "done" => cg_missing = Cams)

\* C3: pairs_to_draw holds exactly the pairs (i, j), i < j, whose match count
\* A[i, j] is strictly greater than min_matches, each once; a pair whose count
\* equals min_matches is not in it.
C3_EdgesStrictlyAboveThreshold ==
    EdgesFiltered
        => /\ EdgeList = {p \in Cams \X Cams : p[1] < p[2] /\ cg_A[p] > cg_min}
           /\ \A k, m \in 1..Len(cg_pairs) : cg_pairs[k] = cg_pairs[m] => k = m
           /\ \A p \in Cams \X Cams : (p[1] < p[2] /\ cg_A[p] = cg_min) => p \notin EdgeList

\* the function returned an edge list that kept one pair and dropped a pair
\* whose count equals min_matches
C3_Witness ==
    /\ cg_pc = "done"
    /\ cg_pairs # <<>>
    /\ \E p \in Cams \X Cams : p[1] < p[2] /\ cg_A[p] = cg_min /\ p \notin EdgeList

\* C4: the connected components are a partition of the cameras 0..n_cam-1
\* (a camera without a surviving edge is a component of its own) and n_cc is
\* the number of these components.
C4_ComponentsPartitionCameras ==
    ComponentsFound
        => /\ UNION {cg_cc[k] : k \in 1..Len(cg_cc)} = Cams
           /\ \A k, m \in 1..Len(cg_cc) : k # m => cg_cc[k] \cap cg_cc[m] = {}
           /\ \A c \in Cams : (\A e \in cg_Gedges : c \notin e)
                                 => \E k \in 1..Len(cg_cc) : cg_cc[k] = {c}
           /\ cg_ncc = Len(cg_cc)

\* C5: with at least one edge, missing_cams is the set of all cameras minus
\* the nodes of a connected component with the most cameras.
C5_MissingIsComplementOfLargest ==
    (ComponentsFound /\ cg_pairs # <<>>)
        => \E k \in 1..Len(cg_cc) :
              /\ \A m \in 1..Len(cg_cc) : Cardinality(cg_cc[m]) <= Cardinality(cg_cc[k])
              /\ cg_missing = Cams \ cg_cc[k]

\* the tracks in which both rows of camera i and both rows of camera j are not NaN
JointTracks(C, i, j) ==
    {t \in Tracks(C) : /\ C[2*i][t] # "nan" /\ C[2*i + 1][t] # "nan"
                       /\ C[2*j][t] # "nan" /\ C[2*j + 1][t] # "nan"}

\* C6: for distinct cameras i, j, A[i,j] = A[j,i] = the number of track
\* columns in which both rows of camera i and both rows of camera j are not NaN.
C6_AdjacencyCountsJointTracks ==
    AdjacencyBuilt
        => \A i, j \in Cams : i # j =>
              /\ cg_A[<<i, j>>] = cg_A[<<j, i>>]
              /\ cg_A[<<i, j>>] = Cardinality(JointTracks(cg_C, i, j))

(***************************************************************************)
(* Properties of run_plyflatten                                            *)
(***************************************************************************)
RoiComputed ==
    \/ pf_pc \in {"flatten", "dsm", "count", "std", "done"}
    \/ pf_pc = "raised" /\ pf_err \in {"BackendError", "AssertionError"}

ValidBBox == pf_res > 0 /\ pf_bbx.xmin < pf_bbx.xmax /\ pf_bbx.ymin <= pf_bbx.ymax

\* C8: for a valid bounding box, xoff is the largest multiple of the
\* resolution not above xmin, yoff the smallest multiple not below ymax,
\* width = floor((xmax-xmin)/res)+1 and height = floor((ymax-ymin)/res)+1;
\* xmin=0, xmax=9.5, ymin=0, ymax=4.5, res=1 gives width 10, height 5,
\* xoff 0, yoff 5.
C8_GridFromBBox ==
    (RoiComputed /\ ValidBBox)
        => /\ pf_roi.xoff % pf_res = 0
           /\ pf_roi.xoff <= pf_bbx.xmin /\ pf_bbx.xmin < pf_roi.xoff + pf_res
           /\ pf_roi.yoff % pf_res = 0
           /\ pf_roi.yoff - pf_res < pf_bbx.ymax /\ pf_bbx.ymax <= pf_roi.yoff
           /\ (pf_roi.xsize - 1) * pf_res <= pf_bbx.xmax - pf_bbx.xmin
           /\ pf_bbx.xmax - pf_bbx.xmin < pf_roi.xsize * pf_res
           /\ (pf_roi.ysize - 1) * pf_res <= pf_bbx.ymax - pf_bbx.ymin
           /\ pf_bbx.ymax - pf_bbx.ymin < pf_roi.ysize * pf_res
           /\ (pf_bbx = ExampleBBox /\ pf_res = ExampleRes)
                 => pf_roi = [xoff |-> 0, yoff |-> 5 * Scale, xsize |-> 10, ysize |-> 5]

\* the grid of the example bounding box has been computed and the dsm written
C8_Witness ==
    /\ pf_pc = "done"
    /\ pf_bbx = ExampleBBox /\ pf_res = ExampleRes
    /\ pf_roi.xsize = 10 /\ pf_roi.ysize = 5

\* C9: for a valid bounding box, every point (x, y) inside it has the
\* non-negative cell indices floor((x - xoff)/res) and floor((yoff - y)/res).
C9_CellIndicesNonNegative ==
    (RoiComputed /\ ValidBBox)
        => \A x \in pf_bbx.xmin..pf_bbx.xmax, y \in pf_bbx.ymin..pf_bbx.ymax :
              /\ Floor(x - pf_roi.xoff, pf_res) >= 0
              /\ Floor(pf_roi.yoff - y, pf_res) >= 0

\* a grid was computed for a valid box whose xmin and ymax are not multiples
\* of the resolution, so that xoff < xmin and yoff > ymax
C9_Witness ==
    /\ RoiComputed /\ ValidBBox
    /\ pf_bbx.xmin % pf_res # 0 /\ pf_bbx.ymax % pf_res # 0
    /\ pf_bbx.xmin < 0
    /\ pf_roi.xoff < pf_bbx.xmin /\ pf_roi.yoff > pf_bbx.ymax

\* C10: with a degenerate bounding box (resolution <= 0 or xmin >= xmax) the
\* function fails before the grid is computed, before the backend is called
\* and before any output directory or file is created.
C10_DegenerateBBoxRejected ==
    (pf_res <= 0 \/ pf_bbx.xmin >= pf_bbx.xmax)
        => /\ pf_pc \in {"start", "raised"}
           /\ pf_roi = NoRoi
           /\ pf_calls = 0
           /\ pf_written = {} /\ pf_dirs = {}
\* C15: with std and count both requested and a backing raster of the three
\* layers [value, std, count], the dsm file gets layer 0, the cnt/ file the
\* last layer and the std/ file the std layer (index n/2 of the n layers left
\* without the count layer), all three under the same mask.
C15_LayersOfThreeLayerRaster ==
    (pf_pc = "done" /\ pf_std /\ pf_cnt /\ pf_shape = 3)
        => pf_written = {[file |-> "dsm", layer |-> 0, mask |-> pf_mask],
                         [file |-> "cnt", layer |-> 2, mask |-> pf_mask],
                         [file |-> "std", layer |-> 1, mask |-> pf_mask]}

\* the function returned after it wrote the three files of a three-layer
\* raster under the mask of an area of interest
C15_Witness ==
    /\ pf_pc = "done" /\ pf_std /\ pf_cnt /\ pf_shape = 3
    /\ pf_mask = "aoi"
    /\ Cardinality(pf_written) = 3

\* C17: whenever the count is requested (cnt = True) a count layer is written
\* as the cnt/ output, with or without std.
C17_CountWrittenWhenRequested ==
    (pf_pc = "done" /\ pf_cnt) => \E w \in pf_written : w.file = "cnt"

\* C18: for a bounding box with xmin < xmax, ymin < ymax and resolution > 0,
\* every point (x, y) inside the box has a column index below width and a row
\* index below height, also when xmin or ymax is not a multiple of the
\* resolution.
C18_PointsInsideGrid ==
    (RoiComputed /\ pf_res > 0 /\ pf_bbx.xmin < pf_bbx.xmax /\ pf_bbx.ymin < pf_bbx.ymax)
        => \A x \in pf_bbx.xmin..pf_bbx.xmax, y \in pf_bbx.ymin..pf_bbx.ymax :
              /\ Floor(x - pf_roi.xoff, pf_res) < pf_roi.xsize
              /\ Floor(pf_roi.yoff - y, pf_res) < pf_roi.ysize
(***************************************************************************)
(* Properties of the file operations                                       *)
(***************************************************************************)
\* the header of the file is exactly the 7 expected lines
ExpectedHeader(file) ==
    /\ Len(file) >= HeaderLength
    /\ Strip(file[1]) = <<"ply">>
    /\ Strip(file[2]) = <<"format", "ascii", "1.0">>
    /\ Len(Strip(file[3])) = 3 /\ SubSeq(file[3], 1, 2) = <<"element", "vertex">>
    /\ Strip(file[4]) = <<"property", "float", "x">>
    /\ Strip(file[5]) = <<"property", "float", "y">>
    /\ Strip(file[6]) = <<"property", "float", "z">>
    /\ Strip(file[7]) = <<"end_header">>

\* C11: a file whose header is not exactly the 7 expected lines makes
\* read_point_cloud_ply fail before any row is parsed: it does not return,
\* and no row of the point array is filled.
C11_HeaderMismatchRejected ==
    ~ExpectedHeader(rp_file) => (rp_pc # "done" /\ rp_cloud = <<>>)

\* C12: a non-zero exit status of the filter command is raised to the caller
\* as an error that carries the status, and on every exit of the function the
\* output file of the filter has been removed.
C12_FilterFailureSurfaced ==
    ch_pc \in {"done", "raised"}
        => /\ ch_out.kind \notin {"filter", "partial"}
           /\ ch_status # 0 => (ch_pc = "raised" /\ ch_err.status = ch_status)

\* C13: every file handle is released on every exit path of the function
\* that opened it, also when an error occurs between open and close.
C13_HandlesReleased ==
    /\ gp_pc \in {"done", "raised"} => ~gp_open
    /\ rp_pc \in {"done", "raised"} => ~rp_open
    /\ so_pc \in {"done", "raised"} => ~so_open
    /\ sg_pc \in {"done", "raised"} => ~sg_open

\* C14: save_geotiff writes a single-band raster whose coordinate reference
\* system is the one named by the argument epsg_code.
C14_CrsFromArgument ==
    sg_pc = "done" => (sg_raster.bands = 1 /\ sg_raster.crs = sg_args.epsg_code)
====
